---------------------------- MODULE Spec2Model ----------------------------
(***************************************************************************)
(* A model of app.py, the Streamlit loan-prediction page.                  *)
(*                                                                         *)
(* The script is re-executed top to bottom on every interaction of the     *)
(* session.  One execution is modelled as a chain of steps, one per block  *)
(* of the script, with pc naming the block that runs next.  The stores of  *)
(* st.cache_resource / st.cache_data and the session's widget state        *)
(* outlive an execution; everything else is rebuilt by each execution.     *)
(* One session of one server process is modelled, and an interaction is    *)
(* taken when the previous execution has ended.                            *)
(*                                                                         *)
(* Numbers.  A cell of a numeric column of train.csv is held in HALF       *)
(* units (the cell c stands for c/2), so that columns may hold x.5; a      *)
(* median is held in QUARTER units, which makes the mean of the two        *)
(* middle cells exact.  Python's int() is IntOf, truncation toward zero.   *)
(* Floating-point rounding of the one true division is not modelled: the   *)
(* ratio is kept as an exact reduced fraction.                             *)
(***************************************************************************)
EXTENDS Integers, Sequences, FiniteSets, TLC

VARIABLES
    model_cache,    \* store of @st.cache_resource for load_model
    data_cache,     \* store of @st.cache_data for load_data
    model_loads,    \* executions of the body of load_model so far (capped)
    data_loads,     \* executions of the body of load_data so far (capped)
    widget_state,   \* the session's widget values: <<>> or <<fill>>
    clicked,        \* this execution was triggered by the "Predict" button
    pc,             \* the block of the script that runs next
    model,          \* script global `model`
    data,           \* script global `data` (a sequence of rows)
    widgets,        \* the input widgets rendered by this execution, in order
    input_df,       \* script global `input_df`: <<>> or <<row>>
    submitted,      \* script global `submitted`
    predict_calls,  \* calls of model.predict made by this execution
    prediction,     \* what model.predict returned to this execution
    display,        \* the elements this execution has put on the page
    remembered      \* one submitted execution kept for comparison: <<>> or
                    \* <<[key, out, earlier, between]>>

vars == <<model_cache, data_cache, model_loads, data_loads, widget_state,
          clicked, pc, model, data, widgets, input_df, submitted,
          predict_calls, prediction, display, remembered>>

-----------------------------------------------------------------------------
(* Bounds of the exploration *)

\* longest train.csv explored, in rows
MaxRows == 3
\* where the counters of body executions stop counting
LoadCap == 2

\* train.csv is a sequence of at most MaxRows of these rows.  Numeric cells
\* are in half units: person_age 36 is 18 years, person_emp_length 1 is 0.5.
Rows ==
    { [person_age |-> 36, person_income |-> 8,
       person_home_ownership |-> "RENT", person_emp_length |-> 1,
       loan_intent |-> "EDUCATION", loan_grade |-> "A", loan_amnt |-> 4,
       loan_int_rate |-> 15, cb_person_default_on_file |-> "N",
       cb_person_cred_hist_length |-> 4],
      [person_age |-> 60, person_income |-> 0,
       person_home_ownership |-> "OWN", person_emp_length |-> 3,
       loan_intent |-> "MEDICAL", loan_grade |-> "B", loan_amnt |-> 2,
       loan_int_rate |-> 22, cb_person_default_on_file |-> "N",
       cb_person_cred_hist_length |-> 6],
      [person_age |-> 160, person_income |-> 14,
       person_home_ownership |-> "RENT", person_emp_length |-> 246,
       loan_intent |-> "EDUCATION", loan_grade |-> "C", loan_amnt |-> 10,
       loan_int_rate |-> 27, cb_person_default_on_file |-> "Y",
       cb_person_cred_hist_length |-> 8] }

\* what pd.read_csv may return: the header alone, or up to MaxRows rows
Datasets == UNION {[1..n -> Rows] : n \in 0..MaxRows}

\* the labels model.predict may return for the one input row
Labels == {0, 1, 2}

\* str(e) of the exceptions the external calls may raise
ModelLoadErrors == {"[Errno 2] No such file or directory: 'xgboost_model.joblib'"}
DataLoadErrors == {"[Errno 2] No such file or directory: 'train.csv'"}
PredictErrors == {"feature_names mismatch"}

(* Program constants *)

\* max(int(data["person_age"].max()), 100)
AgeFloor == 100
\* max(int(data["person_emp_length"].max()), 65)
EmpFloor == 65
\* st.number_input("Person Income", min_value=1, ...)
IncomeMin == 1
\* min_value=0 of "Loan Amount" and "Credit History Length", 0.0 of the rate
ZeroMin == 0

-----------------------------------------------------------------------------
(* Arithmetic helpers *)

Max(a, b) == IF a >= b THEN a ELSE b

Abs(a) == IF a >= 0 THEN a ELSE -a

\* a variant of IntOf that rounds to the nearest integer, as round() would
IntOfNearest(n, d) == (2 * n + d) \div (2 * d)

\* Python int(n/d) for d > 0: truncation toward zero
IntOf(n, d) == IF n >= 0 THEN n \div d ELSE -((-n) \div d)

RECURSIVE Gcd(_, _)
Gcd(a, b) == IF b = 0 THEN a ELSE Gcd(b, a % b)

\* the float a / b (b > 0) as an exact fraction in lowest terms
TrueDiv(a, b) ==
    LET g == Gcd(Abs(a), b)
    IN  [num |-> a \div g, den |-> b \div g]

-----------------------------------------------------------------------------
(* pandas column statistics, on a non-empty sequence of cells *)

Column(df, name) == [i \in 1..Len(df) |-> df[i][name]]

ColMin(col) == CHOOSE x \in {col[i] : i \in 1..Len(col)} :
                   \A j \in 1..Len(col) : x <= col[j]

ColMax(col) == CHOOSE x \in {col[i] : i \in 1..Len(col)} :
                   \A j \in 1..Len(col) : x >= col[j]

\* the k-th smallest cell, duplicates counted
KthSmallest(col, k) ==
    CHOOSE x \in {col[i] : i \in 1..Len(col)} :
        /\ Cardinality({j \in 1..Len(col) : col[j] < x}) < k
        /\ Cardinality({j \in 1..Len(col) : col[j] <= x}) >= k

\* Series.median(), in quarter units: the middle cell, or the mean of
\* the two middle cells
ColMedian(col) ==
    LET n == Len(col)
    IN  IF n % 2 = 1
        THEN 2 * KthSmallest(col, (n + 1) \div 2)
        ELSE KthSmallest(col, n \div 2) + KthSmallest(col, n \div 2 + 1)

\* Series.unique(): the distinct cells in order of first appearance
RECURSIVE UniqueFrom(_, _, _)
UniqueFrom(col, i, acc) ==
    IF i > Len(col) THEN acc
    ELSE IF \E j \in 1..Len(acc) : acc[j] = col[i]
         THEN UniqueFrom(col, i + 1, acc)
         ELSE UniqueFrom(col, i + 1, Append(acc, col[i]))

Unique(col) == UniqueFrom(col, 1, <<>>)

-----------------------------------------------------------------------------
(* The page *)

Element(kind, text) == [kind |-> kind, text |-> text]

Emit(shown, kind, text) == Append(shown, Element(kind, text))

\* st.title and st.write at the top of the script
Header ==
    << Element("title", "Loan Prediction App"),
       Element("write", "This app predicts the loan status based on your input using a pre-trained XGBoost model.") >>

-----------------------------------------------------------------------------
(* The memoized loaders.  A store is <<>> before the first call and         *)
(* <<entry>> after it; an entry keeps the returned value and the elements   *)
(* the body showed, which a later call shows again without running the body *)

\* what one execution of the body of load_model may produce
load_model_body ==
    {[value |-> "XGBClassifier", shown |-> <<>>]}
    \cup {[value |-> "None",
           shown |-> <<Element("error", "Error loading model: " \o e)>>] :
          e \in ModelLoadErrors}

\* what one execution of the body of load_data may produce
load_data_body ==
    {[value |-> d, shown |-> <<>>] : d \in Datasets}
    \cup {[value |-> <<>>,
           shown |-> <<Element("error", "Error loading data: " \o e)>>] :
          e \in DataLoadErrors}

\* a variant of Memoized without the store: every call runs the body
MemoizedNever(store, body) == {[entry |-> e, ran |-> TRUE] : e \in body}

\* a call of a memoized function: the stored entry, or a run of the body
Memoized(store, body) ==
    IF store # <<>>
    THEN {[entry |-> store[1], ran |-> FALSE]}
    ELSE {[entry |-> e, ran |-> TRUE] : e \in body}

load_model(store) == Memoized(store, load_model_body)

load_data(store) == Memoized(store, load_data_body)

Counted(n, ran) == IF ran /\ n < LoadCap THEN n + 1 ELSE n

-----------------------------------------------------------------------------
(* The input form *)

Slider(label, col, floor) ==
    [label |-> label, kind |-> "slider",
     lo |-> IntOf(ColMin(col), 2),
     hi |-> Max(IntOf(ColMax(col), 2), floor),
     bounded |-> TRUE,
     value |-> IntOf(ColMedian(col), 4),
     options |-> <<>>]

\* st.number_input with integer min_value and value, and no max_value
NumberInput(label, min_value, col) ==
    [label |-> label, kind |-> "number_input",
     lo |-> min_value, hi |-> min_value, bounded |-> FALSE,
     value |-> IntOf(ColMedian(col), 4),
     options |-> <<>>]

\* st.number_input with float min_value and value: both in quarter units
FloatInput(label, min_value, col) ==
    [label |-> label, kind |-> "number_input_float",
     lo |-> 4 * min_value, hi |-> 4 * min_value, bounded |-> FALSE,
     value |-> ColMedian(col),
     options |-> <<>>]

\* st.selectbox: the value is the index of the chosen option, first by default
Selectbox(label, col) ==
    [label |-> label, kind |-> "selectbox",
     lo |-> 1, hi |-> Len(Unique(col)), bounded |-> TRUE,
     value |-> 1,
     options |-> Unique(col)]

Fields ==
    << "person_age", "person_income", "person_home_ownership",
       "person_emp_length", "loan_intent", "loan_grade", "loan_amnt",
       "loan_int_rate", "cb_person_default_on_file",
       "cb_person_cred_hist_length" >>

\* the widget of each field as the form declares it, from the dataset df
WidgetOf(df, f) ==
    CASE f = "person_age" ->
           Slider("Person Age", Column(df, f), AgeFloor)
      [] f = "person_income" ->
           NumberInput("Person Income", IncomeMin, Column(df, f))
      [] f = "person_home_ownership" ->
           Selectbox("Home Ownership", Column(df, f))
      [] f = "person_emp_length" ->
           Slider("Employment Length (Years)", Column(df, f), EmpFloor)
      [] f = "loan_intent" ->
           Selectbox("Loan Intent", Column(df, f))
      [] f = "loan_grade" ->
           Selectbox("Loan Grade", Column(df, f))
      [] f = "loan_amnt" ->
           NumberInput("Loan Amount", ZeroMin, Column(df, f))
      [] f = "loan_int_rate" ->
           FloatInput("Loan Interest Rate", ZeroMin, Column(df, f))
      [] f = "cb_person_default_on_file" ->
           Selectbox("Person Default on File", Column(df, f))
      [] f = "cb_person_cred_hist_length" ->
           NumberInput("Credit History Length", ZeroMin, Column(df, f))

\* the toolkit raises when a widget's default lies outside its bounds
Rejected(w) == w.value < w.lo \/ (w.bounded /\ w.value > w.hi)

\* how many widgets of the form render before one is rejected
Rendered(df) ==
    LET raising == {i \in 1..Len(Fields) : Rejected(WidgetOf(df, Fields[i]))}
    IN  IF raising = {} THEN Len(Fields)
        ELSE (CHOOSE i \in raising : \A j \in raising : i <= j) - 1

\* the values of a form nobody has touched
Defaults(df) == [f \in {Fields[i] : i \in 1..Len(Fields)} |-> WidgetOf(df, f).value]

\* the value a widget hands back: the session's, or its default
Values(state, df) == IF state # <<>> THEN state[1] ELSE Defaults(df)

\* features[col].astype("category") on the one-row frame
Category(v) == [val |-> v, categories |-> <<v>>]

Option(df, f, v) == WidgetOf(df, f).options[v[f]]

\* input_dict, as the one row of `features`
Features(df, v) ==
    [person_age |-> v["person_age"],
     person_income |-> v["person_income"],
     person_home_ownership |-> Category(Option(df, "person_home_ownership", v)),
     person_emp_length |-> v["person_emp_length"],
     loan_intent |-> Category(Option(df, "loan_intent", v)),
     loan_grade |-> Category(Option(df, "loan_grade", v)),
     loan_amnt |-> v["loan_amnt"],
     loan_int_rate |-> v["loan_int_rate"],
     loan_percent_income |-> TrueDiv(v["loan_amnt"], v["person_income"]),
     cb_person_default_on_file |->
         Category(Option(df, "cb_person_default_on_file", v)),
     cb_person_cred_hist_length |-> v["cb_person_cred_hist_length"]]

\* the forms the user may submit: the form as it stands by default, or with
\* one field edited within its widget's bounds (the income or the loan
\* amount lowered to its minimum, or another loan grade selected)
Fills(df) ==
    LET untouched == Defaults(df)
    IN  {untouched}
        \cup {[untouched EXCEPT !["person_income"] = IncomeMin]}
        \cup {[untouched EXCEPT !["loan_amnt"] = ZeroMin]}
        \cup {[untouched EXCEPT !["loan_grade"] = g] :
                 g \in 1..Len(WidgetOf(df, "loan_grade").options)}

-----------------------------------------------------------------------------
(* The prediction *)

\* what a call of model.predict may do: raise, or return one label
PredictOutcomes ==
    {[raised |-> TRUE, err |-> e, labels |-> <<>>] : e \in PredictErrors}
    \cup {[raised |-> FALSE, err |-> "", labels |-> <<l>>] : l \in Labels}

\* a variant of StatusOf with the two sentinel labels exchanged
StatusOfSwapped(label) ==
    IF label = 1 THEN "Predicted Loan Status: Not Approved"
    ELSE IF label = 0 THEN "Predicted Loan Status: Approved"
    ELSE "Predicted Loan Status: " \o ToString(label)

\* the if / elif / else over prediction[0]
StatusOf(label) ==
    IF label = 0 THEN "Predicted Loan Status: Not Approved"
    ELSE IF label = 1 THEN "Predicted Loan Status: Approved"
    ELSE "Predicted Loan Status: " \o ToString(label)

\* a variant of Predicted whose except branch shows nothing
PredictedSwallowed(shown, out) ==
    IF out.raised
    THEN Emit(shown, "spinner", "Predicting...")
    ELSE Emit(Emit(Emit(shown, "spinner", "Predicting..."),
                   "subheader", "Prediction"),
              "write", StatusOf(out.labels[1]))

\* the elements the try / except around model.predict shows
Predicted(shown, out) ==
    IF out.raised
    THEN Emit(Emit(shown, "spinner", "Predicting..."),
              "error", "An error occurred during prediction: " \o out.err)
    ELSE Emit(Emit(Emit(shown, "spinner", "Predicting..."),
                   "subheader", "Prediction"),
              "write", StatusOf(out.labels[1]))

-----------------------------------------------------------------------------
(* The script, block by block *)

Ended == {"start", "done", "stopped", "crashed"}

Init ==
    /\ model_cache = <<>>
    /\ data_cache = <<>>
    /\ model_loads = 0
    /\ data_loads = 0
    /\ widget_state = <<>>
    /\ clicked = FALSE
    /\ pc = "start"
    /\ model = "None"
    /\ data = <<>>
    /\ widgets = <<>>
    /\ input_df = <<>>
    /\ submitted = FALSE
    /\ predict_calls = 0
    /\ prediction = <<>>
    /\ display = <<>>
    /\ remembered = <<>>

\* a variant of FreshPage that keeps the previous execution's elements
FreshPageKept(shown) == shown \o Header

\* what the page of a fresh execution holds before the loaders run
FreshPage(shown) == Header

\* a new execution starts: nothing of the previous one is kept
Restart ==
    /\ pc' = "load_model"
    /\ model' = "None"
    /\ data' = <<>>
    /\ widgets' = <<>>
    /\ input_df' = <<>>
    /\ submitted' = FALSE
    /\ predict_calls' = 0
    /\ prediction' = <<>>
    /\ display' = FreshPage(display)
    /\ remembered' = [i \in 1..Len(remembered) |->
                         [remembered[i] EXCEPT !.earlier = TRUE]]
    /\ UNCHANGED <<model_cache, data_cache, model_loads, data_loads>>

\* the session opens the page, or reruns it without pressing the button
Rerun ==
    /\ pc \in Ended
    /\ clicked' = FALSE
    /\ UNCHANGED widget_state
    /\ Restart

\* the user fills the rendered form and presses "Predict"
ClickPredict ==
    /\ pc = "done"
    /\ \E fill \in Fills(data) :
          widget_state' = <<fill>>
    /\ clicked' = TRUE
    /\ Restart

\* model = load_model()
LoadModel ==
    /\ pc = "load_model"
    /\ \E r \in load_model(model_cache) :
          /\ model_cache' = <<r.entry>>
          /\ model_loads' = Counted(model_loads, r.ran)
          /\ model' = r.entry.value
          /\ display' = display \o r.entry.shown
    /\ pc' = "load_data"
    /\ UNCHANGED <<data_cache, data_loads, widget_state, clicked, data,
                   widgets, input_df, submitted, predict_calls, prediction,
                   remembered>>

\* data = load_data()
LoadData ==
    /\ pc = "load_data"
    /\ \E r \in load_data(data_cache) :
          /\ data_cache' = <<r.entry>>
          /\ data_loads' = Counted(data_loads, r.ran)
          /\ data' = r.entry.value
          /\ display' = display \o r.entry.shown
    /\ pc' = "check_empty"
    /\ UNCHANGED <<model_cache, model_loads, widget_state, clicked, model,
                   widgets, input_df, submitted, predict_calls, prediction,
                   remembered>>

\* a variant of Empty that tests for a missing frame, which load_data
\* never returns
EmptyIsNone(df) == FALSE

\* data.empty: no rows
Empty(df) == Len(df) = 0

\* if data.empty: st.stop(); then the sidebar header
CheckEmpty ==
    /\ pc = "check_empty"
    /\ IF Empty(data)
       THEN /\ pc' = "stopped"
            /\ UNCHANGED display
       ELSE /\ pc' = "collect"
            /\ display' = Emit(display, "sidebar.header", "Input Features")
    /\ UNCHANGED <<model_cache, data_cache, model_loads, data_loads,
                   widget_state, clicked, model, data, widgets, input_df,
                   submitted, predict_calls, prediction, remembered>>

\* a variant of SubmitButton that reports a click in every execution
SubmitButtonAlways(click) == TRUE

\* st.form_submit_button("Predict"): true in the execution the click started
SubmitButton(click) == click

\* the row user_input_features returns
user_input_features(df, state) == Features(df, Values(state, df))

\* input_df, submitted = user_input_features()
Collect ==
    /\ pc = "collect"
    /\ widgets' = [i \in 1..Rendered(data) |-> WidgetOf(data, Fields[i])]
    /\ IF Len(widgets') < Len(Fields)
       THEN /\ pc' = "crashed"
            /\ UNCHANGED <<input_df, submitted, display>>
       ELSE /\ pc' = "summary"
            /\ display' = Emit(display, "form_submit_button", "Predict")
            /\ input_df' = <<user_input_features(data, widget_state)>>
            /\ submitted' = SubmitButton(clicked)
    /\ UNCHANGED <<model_cache, data_cache, model_loads, data_loads,
                   widget_state, clicked, model, data, predict_calls,
                   prediction, remembered>>

\* if submitted: the input summary
Summary ==
    /\ pc = "summary"
    /\ display' = IF submitted
                  THEN Emit(Emit(display, "subheader", "Input Summary"),
                            "write", "input_df")
                  ELSE display
    /\ pc' = "predict"
    /\ UNCHANGED <<model_cache, data_cache, model_loads, data_loads,
                   widget_state, clicked, model, data, widgets, input_df,
                   submitted, predict_calls, prediction, remembered>>

\* `if model:` is false for None alone
Truthy(m) == m # "None"

\* if submitted: predict with the model, or report that there is none
Predict ==
    /\ pc = "predict"
    /\ IF submitted
       THEN IF Truthy(model)
            THEN \E out \in PredictOutcomes :
                    /\ predict_calls' = predict_calls + 1
                    /\ prediction' = <<out>>
                    /\ display' = Predicted(display, out)
            ELSE /\ display' = Emit(display, "error", "Model could not be loaded.")
                 /\ UNCHANGED <<predict_calls, prediction>>
       ELSE UNCHANGED <<predict_calls, prediction, display>>
    /\ pc' = "about"
    /\ UNCHANGED <<model_cache, data_cache, model_loads, data_loads,
                   widget_state, clicked, model, data, widgets, input_df,
                   submitted, remembered>>

\* what a submitted execution read, and what it produced
Key == [fill |-> widget_state, prediction |-> prediction]
Out == [input_df |-> input_df, display |-> display]

\* with st.expander("About this App"); the execution ends.  The bookkeeping
\* of `remembered` is the observer's: it keeps one submitted execution, and
\* notes whether a different submission has ended since.
About ==
    /\ pc = "about"
    /\ display' = Emit(display, "expander", "About this App")
    /\ pc' = "done"
    /\ \/ remembered' = [i \in 1..Len(remembered) |->
                            [remembered[i] EXCEPT !.between =
                                @ \/ (submitted /\ remembered[i].key # Key)]]
       \/ /\ submitted
          /\ remembered = <<>>
          /\ remembered' = <<[key |-> Key,
                              out |-> [Out EXCEPT !.display = display'],
                              earlier |-> FALSE, between |-> FALSE]>>
    /\ UNCHANGED <<model_cache, data_cache, model_loads, data_loads,
                   widget_state, clicked, model, data, widgets, input_df,
                   submitted, predict_calls, prediction>>

Next ==
    \/ Rerun
    \/ ClickPredict
    \/ LoadModel
    \/ LoadData
    \/ CheckEmpty
    \/ Collect
    \/ Summary
    \/ Predict
    \/ About

Spec == Init /\ [][Next]_vars

-----------------------------------------------------------------------------
(* Vocabulary of the properties *)

Shows(kind, text) == \E i \in 1..Len(display) : display[i] = Element(kind, text)

ShowsKind(kind) == \E i \in 1..Len(display) : display[i].kind = kind

\* the execution has run load_model / load_data / user_input_features
PastLoadModel == pc \notin {"start", "load_model"}
PastLoadData == pc \notin {"start", "load_model", "load_data"}
PastCollect == pc \in {"summary", "predict", "about", "done", "crashed"}
PastPredict == pc \in {"about", "done"}

\* the status line the page is to show for a label
ExpectedStatus(label) ==
    CASE label = 0 -> "Predicted Loan Status: Not Approved"
      [] label = 1 -> "Predicted Loan Status: Approved"
      [] OTHER -> "Predicted Loan Status: " \o ToString(label)

StatusLines ==
    {i \in 1..Len(display) :
        /\ display[i].kind = "write"
        /\ \E l \in Labels : display[i].text = ExpectedStatus(l)}

PredictionShown == StatusLines # {} \/ Shows("subheader", "Prediction")

PredictRaised == prediction # <<>> /\ prediction[1].raised

PredictReturned == prediction # <<>> /\ ~prediction[1].raised

-----------------------------------------------------------------------------
\* C1: with the model absent and a non-empty dataset, every execution renders
\* the ten input widgets, and every submitted one shows "Model could not be
\* loaded.", never calls model.predict and never shows a prediction.
C1_AbsentModelStillServes ==
    (PastLoadData /\ model = "None" /\ data # <<>>) =>
        /\ PastCollect => Len(widgets) = Len(Fields)
        /\ predict_calls = 0
        /\ ~PredictionShown
        /\ (submitted /\ PastPredict) =>
               Shows("error", "Model could not be loaded.")

\* C2: with an empty dataset (failed load, or no rows) every execution halts
\* right after loading: no widget, no input row, no summary, no call of
\* model.predict, whether or not the model loaded.
C2_EmptyDatasetHalts ==
    (PastLoadData /\ data = <<>>) =>
        /\ pc \in {"check_empty", "stopped"}
        /\ widgets = <<>>
        /\ input_df = <<>>
        /\ ~submitted
        /\ predict_calls = 0
        /\ ~ShowsKind("sidebar.header")
        /\ ~ShowsKind("form_submit_button")
        /\ ~ShowsKind("subheader")
        /\ ~ShowsKind("expander")

C2_Witness ==
    /\ pc = "stopped"
    /\ model = "XGBClassifier"
    /\ ShowsKind("error")

\* C3: when a submitted execution's model.predict returns, exactly one status
\* line is shown, and it is decided by the first label: 0 "Not Approved",
\* 1 "Approved", anything else the label itself.
C3_StatusFollowsLabel ==
    (PastPredict /\ PredictReturned) =>
        /\ Cardinality(StatusLines) = 1
        /\ Shows("write", ExpectedStatus(prediction[1].labels[1]))
        /\ prediction[1].labels[1] = 2 =>
               Shows("write", "Predicted Loan Status: 2")
        /\ prediction[1].labels[1] = 1 =>
               Shows("write", "Predicted Loan Status: Approved")
        /\ prediction[1].labels[1] = 0 =>
               Shows("write", "Predicted Loan Status: Not Approved")

C3_Witness ==
    /\ pc = "done"
    /\ PredictReturned
    /\ prediction[1].labels[1] = 2
    /\ Shows("write", "Predicted Loan Status: 2")

\* C4: an execution the "Predict" button did not start does nothing
\* downstream of the form: no input summary, no call of model.predict, no
\* prediction, no prediction error and no missing-model error.
C4_NothingUntilConfirmed ==
    ~clicked =>
        /\ ~submitted
        /\ predict_calls = 0
        /\ prediction = <<>>
        /\ ~ShowsKind("subheader")
        /\ ~ShowsKind("spinner")
        /\ ~PredictionShown
        /\ ~Shows("error", "Model could not be loaded.")
        /\ \A e \in PredictErrors :
               ~Shows("error", "An error occurred during prediction: " \o e)

\* a rerun without the button, after a submission changed the widget values
C4_Witness ==
    /\ pc = "done"
    /\ ~clicked
    /\ widget_state # <<>>
    /\ widget_state[1] # Defaults(data)

\* C5: an exception of model.predict is caught and shown as an error, no
\* prediction is shown, the execution still reaches its end with the
\* informational panel rendered, and the next interaction starts over, not
\* submitted, with the same memoized artifacts.
C5_RaisedState ==
    PredictRaised =>
        /\ PastPredict
        /\ Shows("error", "An error occurred during prediction: "
                              \o prediction[1].err)
        /\ ~PredictionShown
        /\ pc = "about" => ENABLED About
        /\ pc = "done" => display[Len(display)] =
                              Element("expander", "About this App")

C5_NextInteraction ==
    (PredictRaised /\ pc = "done") =>
        /\ pc' = "load_model"
        /\ ~submitted'
        /\ prediction' = <<>>
        /\ display' = Header
        /\ UNCHANGED <<model_cache, data_cache>>

\* C5: both parts, the state of an execution whose predict raised and the
\* step that follows its end.
C5_PredictErrorCaught == [](C5_RaisedState) /\ [][C5_NextInteraction]_vars

C5_Witness ==
    /\ pc = "load_model"
    /\ remembered # <<>>
    /\ remembered[1].earlier
    /\ remembered[1].key.prediction # <<>>
    /\ remembered[1].key.prediction[1].raised

\* C6: the bodies of load_model and load_data each run at most once; what
\* the first call stored is what every later execution observes, and a
\* stored result, success or failure, is never replaced.
C6_Observed ==
    /\ model_loads <= 1
    /\ data_loads <= 1
    /\ PastLoadModel =>
           (model_cache # <<>> /\ model = model_cache[1].value
               /\ model_loads = 1)
    /\ PastLoadData =>
           (data_cache # <<>> /\ data = data_cache[1].value
               /\ data_loads = 1)

C6_Kept ==
    /\ model_cache # <<>> => UNCHANGED <<model_cache, model_loads>>
    /\ data_cache # <<>> => UNCHANGED <<data_cache, data_loads>>

\* C6: both parts, what every execution observes and the step that may
\* never replace a stored entry.
C6_LoadedOnce == [](C6_Observed) /\ [][C6_Kept]_vars

\* a later execution observing a failed model load and a stored dataset
C6_Witness ==
    /\ pc = "done"
    /\ remembered # <<>>
    /\ remembered[1].earlier
    /\ model = "None"
    /\ data # <<>>

\* C7: two submitted executions that read the same widget values and get the
\* same answer from model.predict, under the same memoized artifacts, build
\* the same input row and the same page, whatever was submitted in between.
C7_SubmissionsIndependent ==
    (pc = "done" /\ submitted /\ remembered # <<>>
        /\ remembered[1].earlier /\ remembered[1].key = Key) =>
        remembered[1].out = Out

C7_Witness ==
    /\ pc = "done"
    /\ submitted
    /\ remembered # <<>>
    /\ remembered[1].earlier
    /\ remembered[1].between
    /\ remembered[1].key = Key
    /\ remembered[1].out = Out

\* C8: every failure of every stage ends in a message on the page and no
\* exception escapes the execution.
C8_EveryFailureSurfaced ==
    /\ pc # "crashed"
    /\ (PastLoadModel /\ model = "None") => ShowsKind("error")
    /\ (PastLoadData /\ data_cache[1].shown # <<>>) => ShowsKind("error")
    /\ (PastPredict /\ PredictRaised) => ShowsKind("error")

-----------------------------------------------------------------------------
(* Reference arithmetic for the properties of the derived bounds *)

\* x/d truncated toward zero, stated by what it satisfies
Truncated(n, d) ==
    LET m == CHOOSE k \in 0..Abs(n) : k * d <= Abs(n) /\ Abs(n) < (k + 1) * d
    IN  IF n < 0 THEN -m ELSE m

\* the largest integer not above n/d
Floor(n, d) ==
    CHOOSE k \in (-Abs(n) - 1)..Abs(n) : k * d <= n /\ n < (k + 1) * d

\* Python's round(n/d): the nearest integer, a tie going to the even one
Round(n, d) ==
    LET f == Floor(n, d)
        r == n - f * d
    IN  IF 2 * r < d THEN f
        ELSE IF 2 * r > d THEN f + 1
        ELSE IF f % 2 = 0 THEN f ELSE f + 1

InBounds(w) == w.lo <= w.value /\ (w.bounded => w.value <= w.hi)

NumericFields ==
    {"person_age", "person_income", "person_emp_length", "loan_amnt",
     "loan_int_rate", "cb_person_cred_hist_length"}

\* C9: for every non-empty dataset the default of every numeric widget lies
\* within the widget's bounds.
C9_DefaultsWithinBounds ==
    (PastLoadData /\ data # <<>>) =>
        \A f \in NumericFields : InBounds(WidgetOf(data, f))

\* widget i is rendered as the slider of its column, with floor fl, under
\* the integer conversions Lo (of min and max) and Mid (of the median)
SliderAs(i, fl, Lo(_, _), Mid(_, _)) ==
    Len(widgets) >= i =>
        /\ widgets[i].kind = "slider"
        /\ widgets[i].lo = Lo(ColMin(Column(data, Fields[i])), 2)
        /\ widgets[i].hi = Max(Lo(ColMax(Column(data, Fields[i])), 2), fl)
        /\ widgets[i].value = Mid(ColMedian(Column(data, Fields[i])), 4)

\* C10 as stated: lo = floor(min), hi = max(floor(max), F), default =
\* round(median), F = 100 for age and 65 for employment length.
C10_FloorAndRound ==
    /\ SliderAs(1, 100, Floor, Round)
    /\ SliderAs(4, 65, Floor, Round)

\* C10 as amended: lo = int(min), hi = max(int(max), F), default =
\* int(median), int() truncating toward zero; a person_age column with
\* min 18, max 80 and median 30 gives the bounds [18, 100] and default 30.
C10_Truncation ==
    /\ SliderAs(1, 100, Truncated, Truncated)
    /\ SliderAs(4, 65, Truncated, Truncated)
    /\ (PastCollect /\ ColMin(Column(data, "person_age")) = 2 * 18
           /\ ColMax(Column(data, "person_age")) = 2 * 80
           /\ ColMedian(Column(data, "person_age")) = 4 * 30) =>
          /\ widgets[1].label = "Person Age"
          /\ widgets[1].lo = 18
          /\ widgets[1].hi = 100
          /\ widgets[1].value = 30

\* the age column of the example, with an employment-length column whose
\* median is not an integer
C10_Witness ==
    /\ pc = "done"
    /\ Len(widgets) = Len(Fields)
    /\ ColMin(Column(data, "person_age")) = 2 * 18
    /\ ColMax(Column(data, "person_age")) = 2 * 80
    /\ ColMedian(Column(data, "person_age")) = 4 * 30
    /\ ColMedian(Column(data, "person_emp_length")) % 4 # 0

=============================================================================
